---- MODULE Spec2Model ----
(***************************************************************************)
(* Finite sets and binary relations of src/src/lib.rs: Set<T> (a Vec of   *)
(* items), Relation<T> (a carrier Set and a Vec of links), their          *)
(* PartialEq implementations, the set algebra (union, inter, compl), the  *)
(* link insertion methods, the property tests, the closures and the       *)
(* relation algebra (rel_union, rel_inter, rel_compl, rel_compo).         *)
(* T is instantiated with small naturals; a Vec is a TLA+ sequence.       *)
(***************************************************************************)
EXTENDS Naturals, Sequences, FiniteSets

VARIABLES r, pre, op, arg, sa, sb, sres

vars == <<r, pre, op, arg, sa, sb, sres>>

(***************************************************************************)
(* Bounds of the model.                                                    *)
(***************************************************************************)
\* the element type T is instantiated with 0 .. 2
Elem == 0 .. 2

\* longest item vector handed to Set::new
MaxItems == 2

\* longest link vector handed unvalidated to Relation::new, handed to
\* add_links, or held by an operand of a binary function
MaxInput == 2

\* longest link vector of a relation a closure is applied to, and the longest
\* one that add_link and add_links are left to build
MaxLinks == 3

Pair == Elem \X Elem

(***************************************************************************)
(* Vec helpers: sort() and dedup() as the standard library performs them.  *)
(***************************************************************************)
\* Ord for (T, T): lexicographic
PairLess(x, y) == x[1] < y[1] \/ (x[1] = y[1] /\ x[2] < y[2])

RECURSIVE InsertItem(_, _)
InsertItem(x, s) ==
    IF s = <<>> THEN <<x>>
    ELSE IF Head(s) < x THEN <<Head(s)>> \o InsertItem(x, Tail(s))
    ELSE <<x>> \o s

RECURSIVE SortItems(_)
SortItems(s) == IF s = <<>> THEN <<>> ELSE InsertItem(Head(s), SortItems(Tail(s)))

RECURSIVE InsertPair(_, _)
InsertPair(x, s) ==
    IF s = <<>> THEN <<x>>
    ELSE IF PairLess(Head(s), x) THEN <<Head(s)>> \o InsertPair(x, Tail(s))
    ELSE <<x>> \o s

RECURSIVE SortPairs(_)
SortPairs(s) == IF s = <<>> THEN <<>> ELSE InsertPair(Head(s), SortPairs(Tail(s)))

\* Vec::dedup: removes consecutive repeated elements
RECURSIVE Dedup(_)
Dedup(s) ==
    IF Len(s) <= 1 THEN s
    ELSE IF s[1] = s[2] THEN Dedup(Tail(s))
    ELSE <<s[1]>> \o Dedup(Tail(s))

(***************************************************************************)
(* Set<T>                                                                  *)
(***************************************************************************)
SetNew(items) == [items |-> items]

SetHas(s, l) == \E n \in 1 .. Len(s.items) : s.items[n] = l

SetLen(s) == Len(s.items)

\* impl PartialEq for Set<T>
SetEq(self, other) ==
    IF Len(self.items) # Len(other.items) THEN FALSE
    ELSE \A n \in 1 .. Len(self.items) : SetHas(other, self.items[n])

union(this, that) == [items |-> Dedup(SortItems(this.items \o that.items))]

inter(this, that) == SetNew(SelectSeq(this.items, LAMBDA x : SetHas(that, x)))

compl(this, that) == SetNew(SelectSeq(this.items, LAMBDA x : ~SetHas(that, x)))

(***************************************************************************)
(* Relation<T>                                                             *)
(***************************************************************************)
RelNew(set, links) == [set |-> set, links |-> links]

RelHas(self, l) == \E n \in 1 .. Len(self.links) : self.links[n] = l

\* impl PartialEq for Relation<T>
RelEq(self, other) ==
    IF Len(self.links) # Len(other.links) THEN FALSE
    ELSE \A n \in 1 .. Len(self.links) : RelHas(other, self.links[n])

\* add_link without the carrier test
add_link_any_endpoint(self, l) ==
    IF ~RelHas(self, l)
    THEN [self EXCEPT !.links = Append(@, l)]
    ELSE self

\* add_link without the test for a link already present
add_link_again(self, l) ==
    IF SetHas(self.set, l[1]) /\ SetHas(self.set, l[2])
    THEN [self EXCEPT !.links = Append(@, l)]
    ELSE self

add_link(self, l) ==
    IF ~RelHas(self, l) /\ SetHas(self.set, l[1]) /\ SetHas(self.set, l[2])
    THEN [self EXCEPT !.links = Append(@, l)]
    ELSE self

RECURSIVE add_links(_, _)
add_links(self, ls) ==
    IF ls = <<>> THEN self
    ELSE LET l == Head(ls)
         IN  add_links(IF ~RelHas(self, l) /\ SetHas(self.set, l[1]) /\ SetHas(self.set, l[2])
                       THEN add_link(self, l)
                       ELSE self,
                       Tail(ls))

domain(self) ==
    SetNew(Dedup(SortItems([n \in 1 .. Len(self.links) |-> self.links[n][1]])))

codomain(self) ==
    SetNew(Dedup(SortItems([n \in 1 .. Len(self.links) |-> self.links[n][2]])))

is_reflexive(self) ==
    \A n \in 1 .. Len(self.set.items) :
        RelHas(self, <<self.set.items[n], self.set.items[n]>>)

is_symmetric(self) ==
    \A n \in 1 .. Len(self.links) :
        RelHas(self, <<self.links[n][2], self.links[n][1]>>)

rel_union(this, that) ==
    RelNew(union(this.set, that.set), Dedup(SortPairs(this.links \o that.links)))

rel_inter(this, that) ==
    RelNew(inter(this.set, that.set), SelectSeq(this.links, LAMBDA x : RelHas(that, x)))

rel_compl(this, that) ==
    RelNew(compl(this.set, that.set), SelectSeq(this.links, LAMBDA x : ~RelHas(that, x)))

\* the nested loops of rel_compo, flattened: step t visits item = this.links[a]
\* and item2 = that.links[b], a the outer index and b the inner one
rel_compo(this, that) ==
    LET m == Len(that.links)
        steps == [t \in 1 .. Len(this.links) * m |->
                    <<this.links[((t - 1) \div m) + 1], that.links[((t - 1) % m) + 1]>>]
        kept == SelectSeq(steps, LAMBDA s : s[2][1] = s[1][2])
        v == [t \in 1 .. Len(kept) |-> <<kept[t][1][1], kept[t][2][2]>>]
    IN  RelNew(union(domain(this), codomain(that)), v)

\* refl_closure adding the self-loops of the linked elements only
refl_closure_linked(self) ==
    LET it == union(domain(self), codomain(self)).items
        v == [n \in 1 .. Len(it) |-> <<it[n], it[n]>>]
    IN  rel_union(self, RelNew(self.set, v))

refl_closure(self) ==
    LET v == [n \in 1 .. Len(self.set.items) |-> <<self.set.items[n], self.set.items[n]>>]
    IN  rel_union(self, RelNew(self.set, v))

\* the three nested loops of trans_closure, flattened: step t visits
\* <<k, i, j>> with k the outermost and j the innermost loop variable
trans_closure(self) ==
    LET it == self.set.items
        n == Len(it)
        steps == [t \in 1 .. n * n * n |->
                    <<it[((t - 1) \div (n * n)) + 1],
                      it[(((t - 1) \div n) % n) + 1],
                      it[((t - 1) % n) + 1]>>]
        kept == SelectSeq(steps, LAMBDA s :
                    /\ ~RelHas(self, <<s[2], s[3]>>)
                    /\ RelHas(self, <<s[2], s[1]>>)
                    /\ RelHas(self, <<s[1], s[3]>>))
        v == self.links \o [t \in 1 .. Len(kept) |-> <<kept[t][2], kept[t][3]>>]
    IN  RelNew(self.set, v)

RECURSIVE SymLoop(_, _)
SymLoop(v, ls) ==
    IF ls = <<>> THEN v
    ELSE SymLoop(add_link(v, <<Head(ls)[2], Head(ls)[1]>>), Tail(ls))

sym_closure(self) == SymLoop(RelNew(self.set, self.links), self.links)

(***************************************************************************)
(* The values a client can hand to the constructors.                       *)
(***************************************************************************)
SeqsUpTo(S, n) == UNION {[1 .. m -> S] : m \in 0 .. n}

NoDup(s) == \A m, n \in 1 .. Len(s) : s[m] = s[n] => m = n

Items(set) == {set.items[n] : n \in 1 .. Len(set.items)}

Links(rel) == {rel.links[n] : n \in 1 .. Len(rel.links)}

EndpointsInCarrier(rel) ==
    \A l \in Links(rel) : l[1] \in Items(rel.set) /\ l[2] \in Items(rel.set)

\* Relation::new over any item vector and any link vector
RawRelations ==
    {RelNew(SetNew(c), ls) : c \in SeqsUpTo(Elem, MaxItems), ls \in SeqsUpTo(Pair, MaxInput)}

\* the carriers the client declares: each subset of Elem, in sorted order
Carriers == {c \in SeqsUpTo(Elem, Cardinality(Elem)) : \A m, n \in 1 .. Len(c) : m < n => c[m] < c[n]}

\* the link vectors the validating entry points build over the carrier c:
\* duplicate-free, both endpoints of every link in c
ValidLinks(c, n) ==
    LET S == {c[m] : m \in 1 .. Len(c)}
    IN  {ls \in SeqsUpTo(S \X S, n) : NoDup(ls)}

\* the relations the client starts from
Starts == UNION {{RelNew(SetNew(c), ls) : ls \in ValidLinks(c, MaxLinks)} : c \in Carriers}

\* the other operand of a binary function, its links in sorted order
Operands ==
    UNION {{RelNew(SetNew(c), ls) : ls \in {x \in ValidLinks(c, MaxInput) : x = SortPairs(x)}} :
           c \in Carriers}

EmptySet == SetNew(<<>>)

EmptyRel == RelNew(EmptySet, <<>>)

(***************************************************************************)
(* State: r is the relation the client holds: add_link and add_links       *)
(* mutate it in place, a closure or a binary function replaces it by the   *)
(* relation derived from it.  pre is r as it was created or as it was      *)
(* before the last in-place mutation, op the name of the last operation    *)
(* and arg the link handed to the last add_link.  sa and sb are two sets   *)
(* the client holds and sres the result of the last set operation.         *)
(***************************************************************************)
Init ==
    /\ r \in Starts
    /\ pre = r
    /\ op = "new"
    /\ arg = <<>>
    /\ sa = EmptySet /\ sb = EmptySet /\ sres = EmptySet

InitRaw ==
    /\ r \in RawRelations
    /\ pre = r
    /\ op = "new"
    /\ arg = <<>>
    /\ sa = EmptySet /\ sb = EmptySet /\ sres = EmptySet

InitSet ==
    /\ r = EmptyRel
    /\ pre = r
    /\ op = "start"
    /\ arg = <<>>
    /\ sa = EmptySet /\ sb = EmptySet /\ sres = EmptySet

AddLink ==
    \E l \in Pair :
        /\ Len(r.links) < MaxLinks
        /\ r' = add_link(r, l)
        /\ pre' = r
        /\ op' = "add_link"
        /\ arg' = <<l>>
        /\ UNCHANGED <<sa, sb, sres>>

AddLinks ==
    \E ls \in SeqsUpTo(Pair, MaxInput) :
        /\ Len(r.links) + Len(ls) <= MaxLinks
        /\ r' = add_links(r, ls)
        /\ pre' = r
        /\ op' = "add_links"
        /\ arg' = <<>>
        /\ UNCHANGED <<sa, sb, sres>>

\* a pure function of the relations the client holds: r becomes its result
Derive(name, bound, result) ==
    /\ Len(r.links) <= bound
    /\ r' = result
    /\ pre' = result
    /\ op' = name
    /\ arg' = <<>>
    /\ UNCHANGED <<sa, sb, sres>>

ReflClosure == Derive("refl_closure", MaxLinks, refl_closure(r))

SymClosure == Derive("sym_closure", MaxLinks, sym_closure(r))

TransClosure == Derive("trans_closure", MaxLinks, trans_closure(r))

\* the operand pairs of a binary function: r with another relation (or with
\* itself), in either order
OperandPairs ==
    {<<r, o>> : o \in Operands \cup {r}} \cup {<<o, r>> : o \in Operands}

RelUnion == \E o \in OperandPairs : Derive("rel_union", MaxInput, rel_union(o[1], o[2]))

RelInter == \E o \in OperandPairs : Derive("rel_inter", MaxInput, rel_inter(o[1], o[2]))

RelCompl == \E o \in OperandPairs : Derive("rel_compl", MaxInput, rel_compl(o[1], o[2]))

RelCompo == \E o \in OperandPairs : Derive("rel_compo", MaxInput, rel_compo(o[1], o[2]))

\* Set::new on two item vectors
NewSets ==
    \E s \in SeqsUpTo(Elem, MaxItems), t \in SeqsUpTo(Elem, MaxItems) :
        /\ op = "start"
        /\ sa' = SetNew(s)
        /\ sb' = SetNew(t)
        /\ sres' = EmptySet
        /\ op' = "new"
        /\ UNCHANGED <<r, pre, arg>>

SetOp(name, result) ==
    /\ op # "start"
    /\ sres' = result
    /\ op' = name
    /\ UNCHANGED <<r, pre, arg, sa, sb>>

Union == SetOp("union", union(sa, sb))

Inter == SetOp("inter", inter(sa, sb))

Compl == SetOp("compl", compl(sa, sb))

Next ==
    \/ AddLink
    \/ AddLinks
    \/ ReflClosure
    \/ SymClosure
    \/ TransClosure
    \/ RelUnion
    \/ RelInter
    \/ RelCompl
    \/ RelCompo

NextRaw ==
    \/ AddLink
    \/ ReflClosure
    \/ SymClosure
    \/ TransClosure

NextSet ==
    \/ NewSets
    \/ Union
    \/ Inter
    \/ Compl

Spec == Init /\ [][Next]_vars

SpecRaw == InitRaw /\ [][NextRaw]_vars

SpecSet == InitSet /\ [][NextSet]_vars

(***************************************************************************)
(* Properties.                                                             *)
(***************************************************************************)
Reverse(s) == [n \in 1 .. Len(s) |-> s[Len(s) + 1 - n]]

RECURSIVE SeqOf(_)
SeqOf(S) == IF S = {} THEN <<>> ELSE LET x == CHOOSE y \in S : TRUE IN <<x>> \o SeqOf(S \ {x})

\* the pairs joined by a path of one or more links of L
RECURSIVE Paths(_, _)
Paths(L, n) ==
    IF n = 0 THEN L
    ELSE LET P == Paths(L, n - 1)
         IN  P \cup {<<c[1][1], c[2][2]>> : c \in {d \in P \X P : d[1][2] = d[2][1]}}

TransitiveClosure(L) == Paths(L, Cardinality(Elem))

\* the composition of two link sets
Composition(A, B) == {<<c[1][1], c[2][2]>> : c \in {d \in A \X B : d[1][2] = d[2][1]}}

\* C1: add_link(l) appends l to the links iff l is not yet a link and both
\* components of l are carrier members; otherwise the link vector stays as it
\* was.  The carrier and the links already present are unchanged either way.
C1_AddLinkContract ==
    op = "add_link" =>
        LET l == arg[1]
            accepted == /\ l \notin Links(pre)
                        /\ l[1] \in Items(pre.set)
                        /\ l[2] \in Items(pre.set)
        IN  /\ r.set = pre.set
            /\ r.links = IF accepted THEN Append(pre.links, l) ELSE pre.links

\* an add_link that was rejected because an endpoint is outside the carrier
C1_Witness ==
    /\ op = "add_link"
    /\ arg[1] \notin Links(pre)
    /\ (arg[1][1] \notin Items(pre.set) \/ arg[1][2] \notin Items(pre.set))
    /\ r = pre

\* C2 as stated: after add_link(p) twice has(p) is true, the link count grew
\* by at most 1 and the second call changed nothing.  r is the relation after
\* the first call, add_link(r, p) the relation after the second.
C2_Original ==
    op = "add_link" =>
        LET second == add_link(r, arg[1])
        IN  /\ RelHas(second, arg[1])
            /\ Len(second.links) <= Len(pre.links) + 1
            /\ second = r

\* C2 amended: after add_link(p) twice has(p) is true exactly when p was a link
\* before or both components of p are carrier members; the link count grew by
\* at most 1 and the second call changed nothing.
C2_AddLinkTwice ==
    op = "add_link" =>
        LET l == arg[1]
            second == add_link(r, l)
        IN  /\ RelHas(second, l) <=>
                    \/ l \in Links(pre)
                    \/ (l[1] \in Items(pre.set) /\ l[2] \in Items(pre.set))
            /\ Len(second.links) <= Len(pre.links) + 1
            /\ second = r

\* an add_link that appended its link to a relation holding links already
C2_Witness ==
    /\ op = "add_link"
    /\ pre.links # <<>>
    /\ Len(r.links) = Len(pre.links) + 1
    /\ RelHas(r, arg[1])

\* C3: sym_closure of any relation is symmetric and holds the links of the
\* relation and the reverse of each of them.
C3_SymClosure ==
    [][op' = "sym_closure" =>
          /\ is_symmetric(r')
          /\ Links(r') = Links(r) \cup {<<l[2], l[1]>> : l \in Links(r)}]_vars

\* C4: refl_closure of any relation is reflexive, has the carrier elements of
\* the relation, every link of it and the self-loop of every carrier element.
C4_ReflClosure ==
    [][op' = "refl_closure" =>
          /\ is_reflexive(r')
          /\ Items(r'.set) = Items(r.set)
          /\ Links(r) \subseteq Links(r')
          /\ \A x \in Items(r.set) : <<x, x>> \in Links(r')]_vars

\* a reflexive closure that gave a self-loop to a carrier element no other
\* link touches, beside a link between two different elements
C4_Witness ==
    /\ op = "refl_closure"
    /\ \E l \in Links(r) : l[1] # l[2]
    /\ \E x \in Items(r.set) :
          /\ <<x, x>> \in Links(r)
          /\ \A l \in Links(r) : (l[1] = x \/ l[2] = x) => l = <<x, x>>

\* C5: trans_closure of a relation whose link endpoints are carrier members
\* holds exactly the pairs joined by a path of one or more of its links.
C5_TransClosure ==
    [][(op' = "trans_closure" /\ EndpointsInCarrier(r)) =>
          Links(r') = TransitiveClosure(Links(r))]_vars

\* C6: Set::new(S1) == Set::new(S2) exactly when S1 and S2 hold the same
\* distinct elements; the comparison is reflexive and symmetric, and a set
\* equals the set of its reversed item vector.
C6_SetEquality ==
    op # "start" =>
        /\ SetEq(sa, sb) <=> Items(sa) = Items(sb)
        /\ SetEq(sa, sb) <=> SetEq(sb, sa)
        /\ SetEq(sa, sa)
        /\ SetEq(sa, SetNew(Reverse(sa.items)))

\* C7: union and inter are commutative under Set equality.
C7_Commutative ==
    /\ op = "union" => SetEq(sres, union(sb, sa))
    /\ op = "inter" => SetEq(sres, inter(sb, sa))

\* C8: rel_compo of two duplicate-free relations equals (Relation ==) the
\* relation holding each pair of the composition of their link sets once,
\* and its carrier is union(a.domain(), b.codomain()).
C8_Composition ==
    [][\A o \in OperandPairs :
          (/\ op' = "rel_compo"
           /\ r' = rel_compo(o[1], o[2])
           /\ NoDup(o[1].links)
           /\ NoDup(o[2].links)) =>
              /\ RelEq(r', RelNew(r'.set, SeqOf(Composition(Links(o[1]), Links(o[2])))))
              /\ r'.set = union(domain(o[1]), codomain(o[2]))]_vars

\* C9: no relation reachable from a valid one holds two equal links.
C9_LinksUnique == NoDup(r.links)

\* C10: both components of every link of a relation reachable from a valid
\* one are members of its carrier.
C10_EndpointsInCarrier == EndpointsInCarrier(r)

====
